---- MODULE Spec2Model ----
(***************************************************************************)
(* The download orchestrator (class Downloader), its transfer records      *)
(* (class Download) and its five observable lists (class DownloadList).    *)
(*                                                                         *)
(* One step of the model is one run-to-completion piece of JavaScript: an  *)
(* API call, one callback of the process.nextTick queue, or one callback   *)
(* of a transport or file stream.  Everything such a piece does            *)
(* synchronously (list 'remove' events, the admission of waiting records   *)
(* they cause, activations that fail at once) happens inside the step.     *)
(***************************************************************************)
EXTENDS Naturals, Integers, Sequences, FiniteSets, Bags, TLC

\* ------------------------------------------------------------------ bounds
NumDownloads == 3   \* records that add() creates in one behaviour
MaxLimit == 3       \* largest value assigned to settings.maxConcurrentDownloads
MaxCalls == 2       \* API calls other than add() in one behaviour

\* ------------------------------------------------------------- vocabulary
Terminal == {"COMPLETE", "ERROR", "REMOVED"}

\* The answers of the environment that the steps draw from; one failure of each
\* kind drives the orchestrator through its failure paths.
\* What the synchronous part of _download meets in the file system.
FsAnswers == {"ok", "MKDIR_FAILED"}

\* What the transport reports through its 'error' event.
TransportErrors == {"other"}

\* What the write stream's 'close' handler finds: a .tmp file of size zero, of the
\* declared size (and renameSync succeeds), or of another size.
CloseAnswers == {"zero", "renamed", "mismatch"}

\* Whether createWriteStream returns a stream.
CreateAnswers == {TRUE}

\* The answers of the file system that say the record's path exists.
PathExists == {"FILE_EXISTS", "UNLINKED", "FILE_IO"}

\* enum DownloadErrorCode
DownloadErrorCode ==
  [OK |-> 0, UNKNOWN |-> 1, TIMEOUT |-> 2, RES_NOT_FOUND |-> 3, NETWORK |-> 6,
   FILE_EXISTS |-> 13, RENAME_FAILED |-> 14, CREATE_FILE_FAILED |-> 16, FILE_IO |-> 17,
   MKDIR_FAILED |-> 18, MAX_REDIRECTS |-> 23, AUTH_FAILED |-> 24, CUSTOM |-> 31]

\* DownloadErrorCode.ABORT, the code remove() and the abort of a request use.
ABORT == 31

\* The number of the code an error carries.
CodeOf(code) == IF code = "ABORT" THEN ABORT ELSE DownloadErrorCode[code]

VARIABLES
  status,                  \* Download.status of every record created so far
  error,                   \* Download.error: "null" or the code of the DownloadError
  remove,                  \* Download.remove: "null" or the list its closure removes from
  promise,                 \* the promise of the record's whenStopped() call
  _downloadList,           \* the active list
  _waitingQueue,
  _pausedList,
  _completedList,
  _errorList,
  _downloads,              \* the identity index, in insertion order
  maxConcurrentDownloads,  \* settings.maxConcurrentDownloads
  _lock,
  _disposed,               \* Downloader._disposed
  ticks,                   \* process.nextTick queue: records whose admission step is pending
  streams,                 \* transport operations (got streams) whose callbacks may still fire
  emitted,                 \* events _emitDownloadEvent emitted during the last step
  thrown,                  \* the exception the last step left to its caller
  unlinked,                \* the files unlinkSync deleted in remove() during the last step
  overwrite,               \* settings.overwrite, the policy every record is added with
  existed,                 \* records activated during the last step whose path existsSync found
  io,                      \* one record with its files and the closures of its activations
  naming,                  \* records with their paths, and the paths that exist on the disk
  calls                    \* API calls other than add() made so far

vars == <<status, error, remove, promise, _downloadList, _waitingQueue, _pausedList,
          _completedList, _errorList, _downloads, maxConcurrentDownloads, _lock,
          _disposed, ticks, streams, emitted, thrown, unlinked, overwrite, existed, io,
          naming, calls>>

\* The orchestrator's part of the state.
orchestrator ==
  <<status, error, remove, promise, _downloadList, _waitingQueue, _pausedList,
    _completedList, _errorList, _downloads, maxConcurrentDownloads, _lock,
    _disposed, ticks, streams, emitted, thrown, unlinked, overwrite, existed, naming,
    calls>>

\* ----------------------------------------------------------- event listeners
\* A listener the caller has put on the orchestrator for the step: what it does
\* when it is called for the record d with the event a batch operation emits for
\* every record, 'pause', 'unpause' or 'remove' ("throws": it throws; "assigns":
\* it assigns settings.maxConcurrentDownloads).
NoListener == [kind |-> "none", d |-> 0]

\* ------------------------------------------------------- the state as a value
\* The handlers are written as functions from state to state; fs is what the
\* file system answers to the activations of this step.  The listener the
\* constructor puts on the active list stays there until dispose() disposes the list.
Cur(fs) ==
  [status |-> status, error |-> error, remove |-> remove, promise |-> promise,
   list |-> [active |-> _downloadList, waiting |-> _waitingQueue, paused |-> _pausedList,
             completed |-> _completedList, failed |-> _errorList],
   downloads |-> _downloads, max |-> maxConcurrentDownloads, lock |-> _lock,
   ticks |-> ticks, streams |-> streams, emitted |-> <<>>, thrown |-> "none",
   unlinked |-> {}, overwrite |-> overwrite, existed |-> {}, fs |-> fs,
   disposed |-> _disposed, listening |-> ~_disposed, listener |-> NoListener]

SetState(s) ==
  /\ status' = s.status
  /\ error' = s.error
  /\ remove' = s.remove
  /\ promise' = s.promise
  /\ _downloadList' = s.list.active
  /\ _waitingQueue' = s.list.waiting
  /\ _pausedList' = s.list.paused
  /\ _completedList' = s.list.completed
  /\ _errorList' = s.list.failed
  /\ _downloads' = s.downloads
  /\ maxConcurrentDownloads' = s.max
  /\ _lock' = s.lock
  /\ _disposed' = s.disposed
  /\ ticks' = s.ticks
  /\ streams' = s.streams
  /\ emitted' = s.emitted
  /\ thrown' = s.thrown
  /\ unlinked' = s.unlinked
  /\ overwrite' = s.overwrite
  /\ existed' = s.existed
  /\ io' = io
  /\ naming' = naming

Created == DOMAIN status

\* The answers of the file system: anything for the records in may, which an
\* activation of this step can reach, and nothing to choose for the others.
\* What the file system may also answer when the path exists: with the policy NO
\* that it does, with the policy YES that unlinkSync deleted it or threw.
PolicyAnswers ==
  CASE overwrite = "NO" -> {"FILE_EXISTS"}
    [] overwrite = "YES" -> {"UNLINKED", "FILE_IO"}
    [] OTHER -> {}

Oracles(may) ==
  LET answers == FsAnswers \cup PolicyAnswers
  IN {f \in [Created -> answers] : \A d \in Created \ may : f[d] = "ok"}

Range(seq) == {seq[i] : i \in 1..Len(seq)}

\* ------------------------------------------------------------- LinkedList
\* The closure LinkedList.push returns: unlink the node, wherever it sits.
Unlink(seq, d) == SelectSeq(seq, LAMBDA x : x # d)

\* ------------------------------------------------------------- Download
\* The 'done' listener whenStopped registers with once().
StoppedHandler(st) ==
  CASE st \in {"ERROR", "REMOVED"} -> "rejected"
    [] st = "COMPLETE" -> "resolved"
    [] OTHER -> "detached"

Throw(s, what) == [s EXCEPT !.thrown = what]

\* _emitDownloadEvent: on the record, where whenStopped listens for 'done', then on
\* the orchestrator.
Emit(s, d, ev) ==
  LET s1 == [s EXCEPT !.emitted = Append(@, <<d, ev>>)]
  IN IF ev = "done" /\ s.promise[d] = "pending"
       THEN [s1 EXCEPT !.promise[d] = StoppedHandler(s.status[d])]
       ELSE s1

\* The user's listener, which emit() calls: an assignment to
\* settings.maxConcurrentDownloads while the lock is held is rejected by the
\* setter, and the exception leaves the listener and _emitDownloadEvent.
CallListener(s, d) ==
  IF s.listener.d = d
    THEN CASE s.listener.kind = "throws" -> Throw(s, "ListenerError")
           [] s.listener.kind = "assigns" /\ s.lock -> Throw(s, "Error")
           [] OTHER -> s
    ELSE s

\* _emitDownloadEvent for one of the events the caller listens to.
EmitHeard(s, d, ev) == CallListener(Emit(s, d, ev), d)

\* ------------------------------------------------------------- transports
\* The closure state of one _download call: the record, how far the got stream
\* got, the rename flag, whether Download.req is this call's request, whether
\* the request was destroyed, and whether a 'fail' event came from this call.
NewStream(d) ==
  [d |-> d, phase |-> "created", rename |-> TRUE, isReq |-> FALSE, dead |-> FALSE,
   failed |-> FALSE]

\* _error emits 'fail' for the record d.
Fails(s, d) == s.status[d] # "COMPLETE" /\ s.status[d] # "ERROR"

BagAdd(B, t) == B (+) SetToBag({t})

BagDel(B, t) == B (-) SetToBag({t})

\* download.req = null
ClearReq(B, d) ==
  BagOfAll(LAMBDA t : IF t.d = d THEN [t EXCEPT !.isReq = FALSE] ELSE t, B)

\* ------------------------------------------------------------- DownloadList
\* DownloadList.shift on the waiting queue: the head leaves, its closure is dropped
\* and no 'remove' event is emitted.
ShiftWaiting(s) ==
  [s EXCEPT !.list.waiting = Tail(@), !.remove[Head(s.list.waiting)] = "null"]

RECURSIVE ElementRemove(_, _), OnActiveRemove(_), Push(_, _, _), SetterLoopAll(_, _)
RECURSIVE _download(_, _), _error(_, _, _), _complete(_, _)

\* The 'remove' listener that admits nobody.
OnActiveRemoveIdle(s) == s

\* The 'remove' listener with pop() for shift().
OnActiveRemovePop(s) ==
  IF ~s.lock /\ Len(s.list.active) < s.max /\ s.list.waiting # <<>>
    THEN LET last == s.list.waiting[Len(s.list.waiting)]
         IN _download([s EXCEPT !.list.waiting = SubSeq(@, 1, Len(@) - 1),
                                !.remove[last] = "null"], last)
    ELSE s

\* The listener the constructor puts on the active list's 'remove' event.
OnActiveRemove(s) ==
  IF s.listening /\ ~s.lock /\ Len(s.list.active) < s.max /\ s.list.waiting # <<>>
    THEN _download(ShiftWaiting(s), Head(s.list.waiting))
    ELSE s

\* The closure that fills the place of the record with the last record of the list.
ElementRemoveSwapsLast(s, d) ==
  LET L == s.remove[d]
      seq == s.list[L]
      n == Len(seq)
      swapped == [i \in 1..(n - 1) |-> IF seq[i] = d THEN seq[n] ELSE seq[i]]
      s1 == [s EXCEPT !.remove[d] = "null",
                      !.list[L] = IF d \in Range(seq) THEN swapped ELSE seq]
  IN IF L = "active" THEN OnActiveRemove(s1) ELSE s1

\* The closure without element.remove = null.
ElementRemoveKeepsClosure(s, d) ==
  LET L == s.remove[d]
      s1 == [s EXCEPT !.list[L] = Unlink(@, d)]
  IN IF L = "active" THEN OnActiveRemove(s1) ELSE s1

\* element.remove(), the closure DownloadList.push leaves on the record.
ElementRemove(s, d) ==
  LET L == s.remove[d]
      s1 == [s EXCEPT !.remove[d] = "null", !.list[L] = Unlink(@, d)]
  IN IF L = "active" THEN OnActiveRemove(s1) ELSE s1

\* push without the call of element.remove().
PushKeepsOld(s, L, d) == [s EXCEPT !.list[L] = Append(@, d), !.remove[d] = L]

\* DownloadList.push
Push(s, L, d) ==
  LET s1 == IF s.remove[d] # "null" THEN ElementRemove(s, d) ELSE s
  IN [s1 EXCEPT !.list[L] = Append(@, d), !.remove[d] = L]

\* ------------------------------------------------------------- Downloader
_complete(s, d) ==
  IF s.status[d] # "COMPLETE" /\ s.status[d] # "ERROR"
    THEN LET s1 == Push([s EXCEPT !.status[d] = "COMPLETE", !.error[d] = "null"],
                        "completed", d)
         IN Emit(Emit(s1, d, "complete"), d, "done")
    ELSE s

\* _error that emits 'done' before 'fail'.
ErrorDoneFirst(s, d, code) ==
  IF s.status[d] # "COMPLETE" /\ s.status[d] # "ERROR"
    THEN IF code = "OK"
           THEN _complete(s, d)
           ELSE LET s1 == Push([s EXCEPT !.status[d] = "ERROR", !.error[d] = code],
                               "failed", d)
                IN Emit(Emit(s1, d, "done"), d, "fail")
    ELSE s

_error(s, d, code) ==
  IF s.status[d] # "COMPLETE" /\ s.status[d] # "ERROR"
    THEN IF code = "OK"
           THEN _complete(s, d)
           ELSE LET s1 == Push([s EXCEPT !.status[d] = "ERROR", !.error[d] = code],
                               "failed", d)
                IN Emit(Emit(s1, d, "fail"), d, "done")
    ELSE s

\* _download without the existsSync test of the policy NO.
DownloadNoExistsTest(s, d) ==
  LET s0 == IF s.fs[d] \in PathExists THEN [s EXCEPT !.existed = @ \cup {d}] ELSE s
      s1 == Emit(Push([s0 EXCEPT !.status[d] = "ACTIVE"], "active", d), d, "activate")
  IN CASE s.fs[d] = "MKDIR_FAILED" -> _error(s1, d, "MKDIR_FAILED")
       [] s.overwrite = "YES" /\ s.fs[d] = "FILE_IO" -> _error(s1, d, "FILE_IO")
       [] s.overwrite = "YES" /\ s.fs[d] = "UNLINKED" ->
            [s1 EXCEPT !.unlinked = @ \cup {<<d, "final">>},
                       !.streams = BagAdd(@, NewStream(d))]
       [] OTHER -> [s1 EXCEPT !.streams = BagAdd(@, NewStream(d))]

\* _download with the policy YES, but the existing file is left alone.
DownloadKeepsFile(s, d) ==
  LET s0 == IF s.fs[d] \in PathExists THEN [s EXCEPT !.existed = @ \cup {d}] ELSE s
      s1 == Emit(Push([s0 EXCEPT !.status[d] = "ACTIVE"], "active", d), d, "activate")
  IN CASE s.fs[d] = "MKDIR_FAILED" -> _error(s1, d, "MKDIR_FAILED")
       [] s.overwrite = "NO" /\ s.fs[d] = "FILE_EXISTS" -> _error(s1, d, "FILE_EXISTS")
       [] OTHER -> [s1 EXCEPT !.streams = BagAdd(@, NewStream(d))]

\* _download up to got.stream: mkdirSync, then the policy (NO fails when the path
\* exists, YES deletes the file or fails when it cannot), then the transport.
_download(s, d) ==
  LET s0 == IF s.fs[d] \in PathExists THEN [s EXCEPT !.existed = @ \cup {d}] ELSE s
      s1 == Emit(Push([s0 EXCEPT !.status[d] = "ACTIVE"], "active", d), d, "activate")
  IN CASE s.fs[d] = "MKDIR_FAILED" -> _error(s1, d, "MKDIR_FAILED")
       [] s.overwrite = "NO" /\ s.fs[d] = "FILE_EXISTS" -> _error(s1, d, "FILE_EXISTS")
       [] s.overwrite = "YES" /\ s.fs[d] = "FILE_IO" -> _error(s1, d, "FILE_IO")
       [] s.overwrite = "YES" /\ s.fs[d] = "UNLINKED" ->
            [s1 EXCEPT !.unlinked = @ \cup {<<d, "final">>},
                       !.streams = BagAdd(@, NewStream(d))]
       [] OTHER -> [s1 EXCEPT !.streams = BagAdd(@, NewStream(d))]

\* _queue without the assignment of the status.
QueueKeepsStatus(s, d) == Emit(Push(s, "waiting", d), d, "queue")

_queue(s, d) ==
  Emit(Push([s EXCEPT !.status[d] = "WAITING"], "waiting", d), d, "queue")

\* StartTick without its needWait test.
StartTickNoWait(s, d) == _download(s, d)

\* StartTick with > for >=.
StartTickOffByOne(s, d) ==
  IF Len(s.list.active) > s.max THEN _queue(s, d) ELSE _download(s, d)

\* The callback _start hands to process.nextTick.
StartTick(s, d) ==
  IF Len(s.list.active) >= s.max THEN _queue(s, d) ELSE _download(s, d)

\* _start
_start(s, d) == [s EXCEPT !.ticks = Append(@, d)]

\* Download.abort: this.req?.abort(), which is the override the 'request' handler
\* installed on the request.
Abort(s, d) ==
  LET mine == {t \in BagToSet(s.streams) : t.d = d /\ t.isReq}
  IN IF mine = {}
       THEN s
       ELSE LET t == CHOOSE x \in mine : TRUE
                s1 == [s EXCEPT !.streams =
                         BagAdd(BagDel(@, t),
                                [t EXCEPT !.rename = FALSE, !.isReq = FALSE, !.dead = TRUE,
                                          !.failed = @ \/ s.status[d] = "ACTIVE"])]
            IN IF s.status[d] = "ACTIVE" THEN _error(s1, d, "ABORT") ELSE s1

_pause(s, d) ==
  EmitHeard(Push([Abort(s, d) EXCEPT !.status[d] = "PAUSED"], "paused", d), d, "pause")

\* unpause without its test of the status.
UnpauseNoCheck(s, d) == _start(Emit(s, d, "unpause"), d)

unpause(s, d) ==
  IF s.status[d] # "PAUSED"
    THEN Throw(s, "Error")
    ELSE LET s1 == EmitHeard(s, d, "unpause")
         IN IF s1.thrown # "none" THEN s1 ELSE _start(s1, d)

\* The files of a record that remove() looks for.
FileKinds == {"tmp", "final"}

\* remove without the deletion from the index.
RemoveOpKeepsIndex(s, d, removeFile, exists) ==
  LET s1 == [Abort(s, d) EXCEPT !.error[d] = "ABORT", !.status[d] = "REMOVED"]
      s2 == IF s1.remove[d] # "null" THEN ElementRemove(s1, d) ELSE s1
      s3 == IF removeFile
              THEN [s2 EXCEPT !.unlinked = @ \cup {<<d, f>> : f \in exists}]
              ELSE s2
  IN Emit(Emit(s3, d, "remove"), d, "done")

\* remove; exists tells which of the record's files existsSync finds.
RemoveOp(s, d, removeFile, exists) ==
  LET s1 == [Abort(s, d) EXCEPT !.error[d] = "ABORT", !.status[d] = "REMOVED"]
      s2 == IF s1.remove[d] # "null" THEN ElementRemove(s1, d) ELSE s1
      s3 == IF removeFile
              THEN [s2 EXCEPT !.unlinked = @ \cup {<<d, f>> : f \in exists}]
              ELSE s2
      s4 == [s3 EXCEPT !.downloads = Unlink(@, d)]
      s5 == EmitHeard(s4, d, "remove")
  IN IF s5.thrown # "none" THEN s5 ELSE Emit(s5, d, "done")

RECURSIVE PauseEach(_, _), UnpauseEach(_, _), RemoveEach(_, _, _, _), SetterLoop(_, _)

\* The loops of the batch operations; an exception leaves the loop.
PauseEach(s, seq) ==
  IF seq = <<>> \/ s.thrown # "none"
    THEN s
    ELSE PauseEach(_pause(s, Head(seq)), Tail(seq))

\* pauseAll without its loop over the waiting queue.
PauseAllActiveOnly(s) ==
  LET s1 == [s EXCEPT !.lock = TRUE]
  IN [PauseEach(s1, s1.list.active) EXCEPT !.lock = FALSE]

\* this._lock = false, the last statement of a batch operation, which an
\* exception skips.
Unlock(s) == IF s.thrown # "none" THEN s ELSE [s EXCEPT !.lock = FALSE]

pauseAll(s) ==
  LET s1 == [s EXCEPT !.lock = TRUE]
      s2 == PauseEach(s1, s1.list.waiting)
      s3 == PauseEach(s2, s2.list.active)
  IN Unlock(s3)

UnpauseEach(s, seq) ==
  IF seq = <<>> \/ s.thrown # "none"
    THEN s
    ELSE UnpauseEach(unpause(s, Head(seq)), Tail(seq))

unpauseAll(s) ==
  LET s1 == [s EXCEPT !.lock = TRUE]
  IN Unlock(UnpauseEach(s1, s1.list.paused))

RemoveEach(s, seq, removeFile, exists) ==
  IF seq = <<>> \/ s.thrown # "none"
    THEN s
    ELSE RemoveEach(RemoveOp(s, Head(seq), removeFile, exists), Tail(seq), removeFile, exists)

removeAll(s, removeFile, exists) ==
  LET s1 == [s EXCEPT !.lock = TRUE]
  IN Unlock(RemoveEach(s1, s1.downloads, removeFile, exists))

\* The setter's loop without its counter.
SetterLoopAll(s, needActivateCount) ==
  IF s.list.waiting # <<>>
    THEN SetterLoopAll(_download(ShiftWaiting(s), Head(s.list.waiting)), needActivateCount)
    ELSE s

\* The while loop of the maxConcurrentDownloads setter.
SetterLoop(s, needActivateCount) ==
  IF needActivateCount > 0 /\ s.list.waiting # <<>>
    THEN SetterLoop(_download(ShiftWaiting(s), Head(s.list.waiting)), needActivateCount - 1)
    ELSE s

\* The setter without its test of the number of active records.
SetMaxNoRangeCheck(s, value) ==
  IF s.lock
    THEN Throw(s, "Error")
    ELSE SetterLoop([s EXCEPT !.max = value], value - Len(s.list.active))

\* settings.maxConcurrentDownloads = value
SetMax(s, value) ==
  IF s.lock
    THEN Throw(s, "Error")
    ELSE IF Len(s.list.active) > value
           THEN Throw(s, "RangeError")
           ELSE SetterLoop([s EXCEPT !.max = value], value - Len(s.list.active))

\* _getDownload with an identifier: a string that is not in the index throws.
_getDownload(s, gid) ==
  IF gid \in Range(s.downloads) THEN s ELSE Throw(s, "Error")

\* Download.whenStopped: the handler runs once at the call, and again on 'done'.
whenStopped(s, d) ==
  [s EXCEPT !.promise[d] =
     IF StoppedHandler(s.status[d]) = "detached" THEN "pending" ELSE StoppedHandler(s.status[d])]

\* add: a new record with the default overwrite policy, registered in the index;
\* its admission is deferred to the next tick.
add(s) ==
  LET d == Len(s.status) + 1
  IN _start([s EXCEPT !.status = Append(@, "INIT"), !.error = Append(@, "null"),
                      !.remove = Append(@, "null"), !.promise = Append(@, "none"),
                      !.downloads = Append(@, d)], d)

\* ------------------------------------------------- callbacks of one transport
\* DownloadErrorCode of the 'error' handler.
\* Every error of the transport taken for a network error.
ErrorCodeNetwork(kind) == "NETWORK"

ErrorCode(kind) ==
  CASE kind = "timeout" -> "TIMEOUT"
    [] kind = "http403" -> "AUTH_FAILED"
    [] kind = "http404" -> "RES_NOT_FOUND"
    [] kind = "httpOther" -> "NETWORK"
    [] kind = "maxRedirects" -> "MAX_REDIRECTS"
    [] OTHER -> "NETWORK"

\* downloadStream.on('request')
RequestHandler(s, t) ==
  [s EXCEPT !.streams =
     BagAdd(ClearReq(BagDel(@, t), t.d),
            [t EXCEPT !.phase = "requested", !.isReq = TRUE, !.rename = TRUE])]

\* downloadStream.on('response'): the write stream is created, or createWriteStream throws.
ResponseHandler(s, t, created) ==
  IF created
    THEN [s EXCEPT !.streams = BagAdd(BagDel(@, t), [t EXCEPT !.phase = "piping"])]
    ELSE _error([s EXCEPT !.streams =
                   BagAdd(BagDel(@, t), [t EXCEPT !.phase = "nofile",
                                                  !.failed = @ \/ Fails(s, t.d)])],
                t.d, "CREATE_FILE_FAILED")

\* downloadStream.on('error'): an open write stream is closed and reports 'close' later.
ErrorHandler(s, t, kind) ==
  LET rest == ClearReq(BagDel(s.streams, t), t.d)
      left == IF t.phase = "piping"
                THEN BagAdd(rest, [t EXCEPT !.phase = "closing", !.rename = FALSE,
                                            !.isReq = FALSE,
                                            !.failed = @ \/ Fails(s, t.d)])
                ELSE rest
  IN _error([s EXCEPT !.streams = left], t.d, ErrorCode(kind))

\* The write stream's 'close' handler.
CloseHandler(s, t, outcome) ==
  LET s1 == [s EXCEPT !.streams = ClearReq(BagDel(@, t), t.d)]
  IN CASE outcome = "zero" -> _error(s1, t.d, "UNKNOWN")
       [] outcome = "renamed" /\ t.rename -> _complete(s1, t.d)
       [] outcome = "renameFails" /\ t.rename -> _error(s1, t.d, "RENAME_FAILED")
       [] OTHER -> s1

\* The write stream's 'error' handler; the stream closes itself afterwards.
WriteErrorHandler(s, t) ==
  LET left == BagAdd(ClearReq(BagDel(s.streams, t), t.d),
                     [t EXCEPT !.phase = "closing", !.rename = FALSE, !.isReq = FALSE,
                               !.failed = @ \/ Fails(s, t.d)])
  IN _error([s EXCEPT !.streams = left], t.d, "FILE_IO")

\* ------------------------------------------- one record and its two files
\* Sizes are counted in chunks. A file that does not exist has the size NoFile.
MaxBytes == 2

MaxActivations == 2

NoFile == 0 - 1

\* No record yet, no file on the disk.
IoInit ==
  [status |-> "none", error |-> "null", tick |-> FALSE, req |-> 0, tmp |-> NoFile,
   final |-> NoFile, Range |-> NoFile, totalLength |-> 0, acts |-> <<>>,
   midTransfer |-> FALSE, uncaught |-> FALSE]

\* _error and _complete, for the status and the error.
FileFail(f, code) ==
  IF f.status # "COMPLETE" /\ f.status # "ERROR"
    THEN [f EXCEPT !.status = "ERROR", !.error = code]
    ELSE f

FileComplete(f) ==
  IF f.status # "COMPLETE" /\ f.status # "ERROR"
    THEN [f EXCEPT !.status = "COMPLETE", !.error = "null"]
    ELSE f

\* The closure of a new activation. cancelled, errored and tried remember what
\* happened to it: a pause() or remove() while it ran, an 'error' of its transport
\* or write stream, and the outcome of its renameSync.
NewActivation(fileLength) ==
  [net |-> "created", ws |-> "none", rename |-> TRUE, fileLength |-> fileLength,
   contentLength |-> 0, declared |-> FALSE, written |-> 0,
   cancelled |-> FALSE, errored |-> FALSE, tried |-> "no"]

\* The activations whose transport is still running get the mark cancelled.
Cancelled(acts) ==
  [k \in DOMAIN acts |->
     IF acts[k].net \in {"created", "requested", "responded"}
       THEN [acts[k] EXCEPT !.cancelled = TRUE]
       ELSE acts[k]]

\* _download: the probe of path + '.tmp', the Range header (kept in the record's
\* headers), and the closure of this activation.
FileDownload(f) ==
  LET fileLength == IF f.tmp > 0 THEN f.tmp ELSE 0
  IN [f EXCEPT !.status = "ACTIVE",
               !.Range = IF fileLength > 0 THEN fileLength ELSE @,
               !.acts = Append(@, NewActivation(fileLength))]

\* The record is ACTIVE and its latest activation has written part of a response.
MidTransfer(f) ==
  /\ f.status = "ACTIVE"
  /\ f.acts # <<>>
  /\ f.acts[Len(f.acts)].net = "responded"
  /\ f.acts[Len(f.acts)].written > 0

\* Download.abort with the override of request.abort: the destroyed request ends
\* its pipe, and the write stream closes.
FileAbort(f) ==
  IF f.req = 0
    THEN f
    ELSE LET k == f.req
             f1 == [f EXCEPT !.req = 0, !.acts[k].rename = FALSE,
                             !.acts[k].net = "destroyed",
                             !.acts[k].ws = IF @ = "open" THEN "closing" ELSE @]
         IN IF f.status = "ACTIVE" THEN FileFail(f1, "ABORT") ELSE f1

\* _pause
FilePause(f) ==
  [FileAbort([f EXCEPT !.acts = Cancelled(@)])
     EXCEPT !.status = "PAUSED", !.midTransfer = MidTransfer(f)]

\* remove that deletes the files whatever removeFile is.
FileRemoveDeletes(f, removeFile) ==
  [FileAbort([f EXCEPT !.acts = Cancelled(@)])
     EXCEPT !.status = "REMOVED", !.error = "ABORT", !.midTransfer = FALSE,
            !.tmp = NoFile, !.final = NoFile]

\* remove: unlinkSync of path + '.tmp' and of path, when they exist and removeFile
\* is set.
FileRemove(f, removeFile) ==
  LET f1 == [FileAbort([f EXCEPT !.acts = Cancelled(@)])
               EXCEPT !.status = "REMOVED", !.error = "ABORT", !.midTransfer = FALSE]
  IN IF removeFile THEN [f1 EXCEPT !.tmp = NoFile, !.final = NoFile] ELSE f1

\* unpause and _start
FileUnpause(f) == [f EXCEPT !.tick = TRUE, !.midTransfer = FALSE]

\* downloadStream.on('request')
FileRequest(f, k) ==
  [f EXCEPT !.req = k, !.acts[k].rename = TRUE, !.acts[k].net = "requested"]

\* downloadStream.on('response'): createWriteStream with the flags 'a+' creates
\* the file or keeps what it holds.
FileResponse(f, k, declared, length) ==
  LET contentLength == IF declared THEN length ELSE 0
  IN [f EXCEPT !.totalLength = contentLength + f.acts[k].fileLength,
               !.tmp = IF @ = NoFile THEN 0 ELSE @,
               !.acts[k].net = "responded", !.acts[k].ws = "open",
               !.acts[k].declared = declared, !.acts[k].contentLength = contentLength]

\* A chunk of the response is appended to the partial file.
FileData(f, k) == [f EXCEPT !.tmp = @ + 1, !.acts[k].written = @ + 1]

\* The response ends and the pipe ends the write stream.
FileEnd(f, k) == [f EXCEPT !.acts[k].net = "ended", !.acts[k].ws = "closing"]

\* downloadStream.on('error')
FileError(f, k) ==
  FileFail([f EXCEPT !.req = 0, !.acts[k].rename = FALSE, !.acts[k].net = "failed",
                     !.acts[k].errored = TRUE,
                     !.acts[k].ws = IF @ = "open" THEN "closing" ELSE @], "NETWORK")

\* The write stream's 'error' handler; the stream closes itself afterwards.
FileWriteError(f, k) ==
  FileFail([f EXCEPT !.req = 0, !.acts[k].rename = FALSE, !.acts[k].errored = TRUE,
                     !.acts[k].ws = "closing"], "FILE_IO")

\* The 'close' handler without the comparison of the sizes.
FileCloseNoSizeTest(f, k, renamed) ==
  LET a == f.acts[k]
      f1 == [f EXCEPT !.req = 0, !.acts[k].ws = "closed"]
  IN CASE f.tmp = NoFile -> [f1 EXCEPT !.uncaught = TRUE]
       [] f.tmp = 0 -> FileFail([f1 EXCEPT !.tmp = NoFile], "UNKNOWN")
       [] a.rename ->
            IF renamed
              THEN FileComplete([f1 EXCEPT !.final = f.tmp, !.tmp = NoFile,
                                           !.acts[k].tried = "ok"])
              ELSE FileFail([f1 EXCEPT !.acts[k].tried = "failed"], "RENAME_FAILED")
       [] OTHER -> f1

\* The write stream's 'close' handler. statSync is outside every try block and
\* throws when the file is gone; renamed tells whether renameSync succeeds.
FileClose(f, k, renamed) ==
  LET a == f.acts[k]
      f1 == [f EXCEPT !.req = 0, !.acts[k].ws = "closed"]
  IN CASE f.tmp = NoFile -> [f1 EXCEPT !.uncaught = TRUE]
       [] f.tmp = 0 -> FileFail([f1 EXCEPT !.tmp = NoFile], "UNKNOWN")
       [] a.rename /\ (a.declared => f.tmp = a.fileLength + a.contentLength) ->
            IF renamed
              THEN FileComplete([f1 EXCEPT !.final = f.tmp, !.tmp = NoFile,
                                           !.acts[k].tried = "ok"])
              ELSE FileFail([f1 EXCEPT !.acts[k].tried = "failed"], "RENAME_FAILED")
       [] OTHER -> f1

\* ------------------------------------------------------- paths and renaming
MaxRecords == 3

MaxRename == 3

\* The out names records are added with (one dir), and path.parse of each.
Outs == {"a.txt", "a (1).txt"}

Parse(out) ==
  CASE out = "a.txt" -> [name |-> "a", ext |-> ".txt"]
    [] out = "a (1).txt" -> [name |-> "a (1)", ext |-> ".txt"]

\* p.name + ` (${renameCount})` + p.ext
Renamed(originPath, renameCount) ==
  Parse(originPath).name \o " (" \o ToString(renameCount) \o ")" \o Parse(originPath).ext

\* No record yet, nothing on the disk.
NamingInit == [recs |-> <<>>, disk |-> {}, active |-> {}]

\* new Download(url, dir, out, headers, overwrite, agent)
NewDownload(out, policy) ==
  [originPath |-> out, path |-> out, renameCount |-> 0, overwrite |-> policy,
   tracked |-> TRUE]

RECURSIVE RenameLoop(_, _)

\* The loop with if for while: one renaming at most.
RenameOnce(rec, taken) ==
  IF rec.path \in taken
    THEN [rec EXCEPT !.renameCount = @ + 1,
                     !.path = Renamed(rec.originPath, rec.renameCount + 1)]
    ELSE rec

\* while (collision) { renameCount++; path = name + ` (${renameCount})` + ext }
RenameLoop(rec, taken) ==
  IF rec.path \in taken
    THEN RenameLoop([rec EXCEPT !.renameCount = @ + 1,
                                !.path = Renamed(rec.originPath, rec.renameCount + 1)],
                    taken)
    ELSE rec

\* The paths of the records in the index.
TrackedPaths(n) == {n.recs[d].path : d \in {x \in DOMAIN n.recs : n.recs[x].tracked}}

\* add: with the policy RENAME the path is compared with the tracked records' paths.
NamingAdd(n, out, policy) ==
  LET download == NewDownload(out, policy)
  IN [n EXCEPT !.recs = Append(@, IF policy = "RENAME"
                                     THEN RenameLoop(download, TrackedPaths(n))
                                     ELSE download)]

\* _download: with the policy RENAME the path is compared with the disk.
NamingDownload(n, d) ==
  IF n.recs[d].overwrite = "RENAME"
    THEN [n EXCEPT !.recs[d] = RenameLoop(@, n.disk)]
    ELSE n

\* _download of the record d: the test of the policy on the record's path, after
\* which the record is transferring unless the policy NO met a file.
NamingActivate(n, d) ==
  LET rec == n.recs[d]
  IN CASE rec.overwrite = "NO" /\ rec.path \in n.disk -> n
       [] rec.overwrite = "YES" ->
            [n EXCEPT !.disk = @ \ {rec.path}, !.active = @ \cup {d}]
       [] OTHER -> [NamingDownload(n, d) EXCEPT !.active = @ \cup {d}]

\* The transfer of d ends: its partial file is renamed to its path, or it fails.
NamingFinish(n, d, renamed) ==
  [n EXCEPT !.active = @ \ {d},
            !.disk = IF renamed THEN @ \cup {n.recs[d].path} ELSE @]

\* ------------------------------------------------------------------ actions
\* A new orchestrator whose settings.overwrite was set to RENAME, as the test
\* script does: no activation fails because its path exists.
Init ==
  /\ status = <<>>
  /\ error = <<>>
  /\ remove = <<>>
  /\ promise = <<>>
  /\ _downloadList = <<>>
  /\ _waitingQueue = <<>>
  /\ _pausedList = <<>>
  /\ _completedList = <<>>
  /\ _errorList = <<>>
  /\ _downloads = <<>>
  /\ maxConcurrentDownloads = 1
  /\ _lock = FALSE
  /\ _disposed = FALSE
  /\ ticks = <<>>
  /\ streams = EmptyBag
  /\ emitted = <<>>
  /\ thrown = "none"
  /\ unlinked = {}
  /\ overwrite = "RENAME"
  /\ existed = {}
  /\ io = IoInit
  /\ naming = NamingInit
  /\ calls = 0

\* A new orchestrator whose settings.overwrite was set to YES.
InitOverwrite ==
  /\ status = <<>>
  /\ error = <<>>
  /\ remove = <<>>
  /\ promise = <<>>
  /\ _downloadList = <<>>
  /\ _waitingQueue = <<>>
  /\ _pausedList = <<>>
  /\ _completedList = <<>>
  /\ _errorList = <<>>
  /\ _downloads = <<>>
  /\ maxConcurrentDownloads = 1
  /\ _lock = FALSE
  /\ _disposed = FALSE
  /\ ticks = <<>>
  /\ streams = EmptyBag
  /\ emitted = <<>>
  /\ thrown = "none"
  /\ unlinked = {}
  /\ overwrite = "YES"
  /\ existed = {}
  /\ io = IoInit
  /\ naming = NamingInit
  /\ calls = 0

\* The orchestrator as its constructor leaves it, with the default policy NO.
InitDefault ==
  /\ status = <<>>
  /\ error = <<>>
  /\ remove = <<>>
  /\ promise = <<>>
  /\ _downloadList = <<>>
  /\ _waitingQueue = <<>>
  /\ _pausedList = <<>>
  /\ _completedList = <<>>
  /\ _errorList = <<>>
  /\ _downloads = <<>>
  /\ maxConcurrentDownloads = 1
  /\ _lock = FALSE
  /\ _disposed = FALSE
  /\ ticks = <<>>
  /\ streams = EmptyBag
  /\ emitted = <<>>
  /\ thrown = "none"
  /\ unlinked = {}
  /\ overwrite = "NO"
  /\ existed = {}
  /\ io = IoInit
  /\ naming = NamingInit
  /\ calls = 0

NoFs == [d \in Created |-> "ok"]

Waiting == Range(_waitingQueue)

\* A step outside the budget of API calls, and one inside it.
Step(s) == SetState(s) /\ calls' = calls

Call(s) == calls < MaxCalls /\ SetState(s) /\ calls' = calls + 1

Add ==
  /\ Len(status) < NumDownloads
  /\ Step(add(Cur(NoFs)))

Tick ==
  /\ ticks # <<>>
  /\ \E fs \in Oracles(Waiting \cup {Head(ticks)}) :
       Step(StartTick([Cur(fs) EXCEPT !.ticks = Tail(@)], Head(ticks)))

\* The calls below pass the record itself (an IDownload), tracked or not.
PauseOf(d) == \E fs \in Oracles(Waiting) : Call(_pause(Cur(fs), d))

Pause == \E d \in Created : PauseOf(d)

UnpauseOf(d) == Call(unpause(Cur(NoFs), d))

Unpause == \E d \in Created : UnpauseOf(d)

\* What remove(gid, removeFile) may meet: no removeFile, or removeFile and any
\* subset of the record's files on the disk.
RemoveCases ==
  {<<FALSE, {}>>} \cup {<<TRUE, exists>> : exists \in SUBSET FileKinds}

RemoveOf(d, removeFile) ==
  \E fs \in Oracles(Waiting) : \E c \in RemoveCases :
    /\ c[1] = removeFile
    /\ Call(RemoveOp(Cur(fs), d, c[1], c[2]))

Remove == \E d \in Created : \E removeFile \in BOOLEAN : RemoveOf(d, removeFile)

PauseAll == Call(pauseAll(Cur(NoFs)))

UnpauseAll == Call(unpauseAll(Cur(NoFs)))

RemoveAll == \E c \in RemoveCases : Call(removeAll(Cur(NoFs), c[1], c[2]))

\* pause, unpause, remove or whenStopped with an identifier string that is not in
\* the index: all four begin with _getDownload.
UnknownGid(gid) ==
  /\ gid \notin Range(_downloads)
  /\ Call(_getDownload(Cur(NoFs), gid))

UsageError == \E gid \in 1..NumDownloads : UnknownGid(gid)

SetMaxTo(value) == \E fs \in Oracles(Waiting) : Call(SetMax(Cur(fs), value))

SetMaxConcurrentDownloads == \E value \in 0..MaxLimit : SetMaxTo(value)

OnRequest ==
  \E t \in BagToSet(streams) :
    /\ t.phase = "created"
    /\ Step(RequestHandler(Cur(NoFs), t))

OnResponse ==
  \E t \in BagToSet(streams) : \E created \in CreateAnswers : \E fs \in Oracles(Waiting) :
    /\ t.phase = "requested" /\ ~t.dead
    /\ Step(ResponseHandler(Cur(fs), t, created))

OnError ==
  \E t \in BagToSet(streams) : \E kind \in TransportErrors : \E fs \in Oracles(Waiting) :
    /\ t.phase \in {"created", "requested", "piping", "nofile"}
    /\ Step(ErrorHandler(Cur(fs), t, kind))

OnClose ==
  \E t \in BagToSet(streams) : \E outcome \in CloseAnswers : \E fs \in Oracles(Waiting) :
    /\ t.phase \in {"piping", "closing"}
    /\ Step(CloseHandler(Cur(fs), t, outcome))

OnWriteError ==
  \E t \in BagToSet(streams) : \E fs \in Oracles(Waiting) :
    /\ t.phase = "piping"
    /\ Step(WriteErrorHandler(Cur(fs), t))

\* A destroyed request, or a transfer without a write stream, ends and reports nothing.
Vanish ==
  \E t \in BagToSet(streams) :
    /\ (t.dead /\ t.phase = "requested") \/ t.phase = "nofile"
    /\ Step([Cur(NoFs) EXCEPT !.streams = BagDel(@, t)])

Next ==
  \/ Add
  \/ Tick
  \/ Pause
  \/ Unpause
  \/ Remove
  \/ PauseAll
  \/ UnpauseAll
  \/ RemoveAll
  \/ UsageError
  \/ SetMaxConcurrentDownloads
  \/ OnRequest
  \/ OnResponse
  \/ OnError
  \/ OnClose
  \/ OnWriteError
  \/ Vanish

Spec == Init /\ [][Next]_vars

\* ------------------------------------------------------------------ claims
Occurrences(seq, d) == Cardinality({i \in 1..Len(seq) : seq[i] = d})

\* In how many places of the five lists record d sits.
Memberships(d) ==
  Occurrences(_downloadList, d) + Occurrences(_waitingQueue, d) + Occurrences(_pausedList, d)
    + Occurrences(_completedList, d) + Occurrences(_errorList, d)

\* The list that holds d, "none" if no list does.
ListOf(d) ==
  CASE d \in Range(_downloadList) -> "active"
    [] d \in Range(_waitingQueue) -> "waiting"
    [] d \in Range(_pausedList) -> "paused"
    [] d \in Range(_completedList) -> "completed"
    [] d \in Range(_errorList) -> "failed"
    [] OTHER -> "none"

\* The records the last step activated, in the order of their 'activate' events.
ActivatedIn(log) ==
  LET acts == SelectSeq(log, LAMBDA e : e[2] = "activate")
  IN [i \in 1..Len(acts) |-> acts[i][1]]

Emitted(log, d, ev) == \E i \in 1..Len(log) : log[i] = <<d, ev>>

\* C1: in every reachable state the active list holds at most
\* settings.maxConcurrentDownloads records.
C1_ActiveAtMostLimit == Len(_downloadList) <= maxConcurrentDownloads

\* The limit is reached with two active records while a third one waits.
C1_Witness ==
  /\ Len(_downloadList) = 2
  /\ maxConcurrentDownloads = 2
  /\ _waitingQueue # <<>>

\* C2: every record sits in at most one place of the five lists.
C2_AtMostOneList == \A d \in Created : Memberships(d) <= 1

\* A record that was pushed from the active list into the failed list (by the abort
\* of its request) and from there into the paused list.
C2_Witness ==
  \E d \in Created : d \in Range(_pausedList) /\ error[d] = "ABORT" /\ Memberships(d) = 1

\* C3: a record whose status is COMPLETE, ERROR or REMOVED keeps that status and its
\* place (its list, or none) in every later step.
C3_TerminalIsFinal ==
  [][\A d \in Created :
       status[d] \in Terminal => status'[d] = status[d] /\ ListOf(d)' = ListOf(d)]_vars

\* C4: between steps the status of a record and its list agree: ACTIVE in the
\* active list, WAITING in the waiting queue, PAUSED in the paused list, COMPLETE
\* (without error) in the completed list, ERROR (with an error that is not OK) in
\* the failed list, and INIT and REMOVED in no list.
C4_StatusAgreesWithList ==
  \A d \in Created :
    /\ ListOf(d) = "active" <=> status[d] = "ACTIVE"
    /\ ListOf(d) = "waiting" <=> status[d] = "WAITING"
    /\ ListOf(d) = "paused" <=> status[d] = "PAUSED"
    /\ ListOf(d) = "completed" <=> status[d] = "COMPLETE"
    /\ ListOf(d) = "failed" <=> status[d] = "ERROR"
    /\ ListOf(d) = "none" <=> status[d] \in {"INIT", "REMOVED"}
    /\ status[d] = "COMPLETE" => error[d] = "null"
    /\ status[d] = "ERROR" => error[d] \notin {"null", "OK"}

\* A completed, a failed and a removed record side by side.
C4_Witness ==
  /\ _completedList # <<>>
  /\ _errorList # <<>>
  /\ \E d \in Created : status[d] = "REMOVED" /\ ListOf(d) = "none"


Min(a, b) == IF a < b THEN a ELSE b

\* Record x stands before record y in seq.
Before(seq, x, y) ==
  \E i, j \in 1..Len(seq) : i < j /\ seq[i] = x /\ seq[j] = y

\* C5: the deferred admission step of add() or unpause() activates its record at
\* once when fewer than maxConcurrentDownloads records are active, and otherwise
\* makes it WAITING at the tail of the waiting queue.
C5_AdmissionRule ==
  [][Len(ticks') < Len(ticks) =>
       LET d == Head(ticks)
       IN IF Len(_downloadList) < maxConcurrentDownloads
            THEN /\ ActivatedIn(emitted')[1] = d
                 /\ status'[d] \in {"ACTIVE", "ERROR"}
                 /\ status'[d] = "ACTIVE" => d \in Range(_downloadList')
            ELSE /\ ~Emitted(emitted', d, "activate")
                 /\ status'[d] = "WAITING"
                 /\ _waitingQueue'[Len(_waitingQueue')] = d]_vars

\* An admission step has just queued its record behind another waiting record.
C5_Witness ==
  \E d \in Created :
    /\ emitted = <<<<d, "queue">>>>
    /\ Len(_waitingQueue) = 2
    /\ _waitingQueue[2] = d

\* C6: in every step that is no batch operation, when a record leaves the active
\* list while the waiting queue is not empty and the active list is below the limit,
\* the head of the waiting queue is activated within that step.
C6_VacancyAdmitsHead ==
  [][~(PauseAll \/ UnpauseAll \/ RemoveAll) =>
       \A d \in Range(_downloadList) :
         (/\ d \notin Range(_downloadList')
          /\ _waitingQueue # <<>>
          /\ Len(_downloadList) - 1 < maxConcurrentDownloads)
           => /\ Emitted(emitted', Head(_waitingQueue), "activate")
              /\ Head(_waitingQueue) \notin Range(_waitingQueue')]_vars

\* The step that completed one record activated another one: the push into the
\* completed list vacates the active list before 'complete' is emitted.
C6_Witness ==
  \E a, b \in Created :
    /\ a # b
    /\ emitted = <<<<b, "activate">>, <<a, "complete">>, <<a, "done">>>>
    /\ status[b] = "ACTIVE"

\* C7: waiting records are admitted in the order of the waiting queue: when a step
\* activates a waiting record, every record that stood before it in the queue was
\* activated earlier in that step, unless this step paused or removed it; and the
\* records that stay in the queue keep their order unless one of them is queued anew.
C7_FifoAdmission ==
  [][\A x, y \in Range(_waitingQueue) :
       Before(_waitingQueue, x, y) =>
         /\ Emitted(emitted', y, "activate") =>
               \/ Before(ActivatedIn(emitted'), x, y)
               \/ Emitted(emitted', x, "pause")
               \/ Emitted(emitted', x, "remove")
         /\ (/\ x \in Range(_waitingQueue') /\ y \in Range(_waitingQueue')
             /\ ~Emitted(emitted', x, "queue") /\ ~Emitted(emitted', y, "queue"))
               => Before(_waitingQueue', x, y)]_vars

\* A record that stopped made room for the head of the waiting queue, and the record
\* behind the head still waits.
C7_Witness ==
  \E a, x \in Created :
    /\ a # x
    /\ Emitted(emitted, a, "fail")
    /\ ActivatedIn(emitted) = <<x>>
    /\ status[x] = "ACTIVE"
    /\ _waitingQueue # <<>>

\* ------------------------------------------------------------ Scenario A
\* maxConcurrentDownloads is 1, two URLs are added, and whenStopped() is called on
\* both records.
ScenarioA == {"URL1", "URL2"}

AddA ==
  /\ Len(status) < Cardinality(ScenarioA)
  /\ Step(add(Cur(NoFs)))

WhenStopped ==
  \E d \in Created :
    /\ promise[d] = "none"
    /\ Step(whenStopped(Cur(NoFs), d))

NextA ==
  \/ AddA
  \/ WhenStopped
  \/ Tick
  \/ OnRequest
  \/ OnResponse
  \/ OnError
  \/ OnClose
  \/ OnWriteError

SpecA == Init /\ [][NextA]_vars

\* Nothing is left to run: no deferred admission and no transport.
Quiet == ticks = <<>> /\ streams = EmptyBag

\* C8: in Scenario A the second record waits while the first one is active, and
\* once nothing is left to run the whenStopped() promises of both records are
\* settled.
C8_ScenarioA ==
  (Len(status) = Cardinality(ScenarioA) /\ ticks = <<>>) =>
    /\ status[1] = "ACTIVE" => status[2] = "WAITING"
    /\ (Quiet /\ \A d \in Created : promise[d] # "none")
         => \A d \in Created : promise[d] \in {"resolved", "rejected"}

\* C9: a step that raises the limit activates records from the head of the waiting
\* queue in order, until the active list is full or the queue is empty: as many as
\* min(new limit - active records + activations that failed at once, waiting records).
C9_RaiseFillsHeadroom ==
  [][maxConcurrentDownloads' > maxConcurrentDownloads =>
       LET act == ActivatedIn(emitted')
           failed == Cardinality({i \in 1..Len(act) : status'[act[i]] = "ERROR"})
       IN /\ Len(act) = Min(maxConcurrentDownloads' - Len(_downloadList) + failed,
                            Len(_waitingQueue))
          /\ act = SubSeq(_waitingQueue, 1, Len(act))
          /\ _waitingQueue' = SubSeq(_waitingQueue, Len(act) + 1, Len(_waitingQueue))
          /\ Len(_downloadList') = Len(_downloadList) + Len(act) - failed
          /\ Len(_downloadList') = maxConcurrentDownloads' \/ _waitingQueue' = <<>>]_vars

\* The limit was raised from 1 to 3 with one active and two waiting records, and
\* both waiting records were activated.
C9_Witness ==
  /\ maxConcurrentDownloads = 3
  /\ Len(ActivatedIn(emitted)) = 2
  /\ Len(emitted) = 2
  /\ Len(_downloadList) = 3
  /\ _waitingQueue = <<>>

\* C9 as stated: a step that raises the limit activates exactly
\* min(new limit - active records, waiting records) records from the head of the
\* waiting queue.
C9_RaiseActivatesExactlyMin ==
  [][maxConcurrentDownloads' > maxConcurrentDownloads =>
       ActivatedIn(emitted') =
         SubSeq(_waitingQueue, 1,
                Min(maxConcurrentDownloads' - Len(_downloadList), Len(_waitingQueue)))]_vars

\* C10: setting the limit below the number of active records throws a RangeError
\* and changes neither the limit nor any record, list or transport.
C10_LowerLimitRejected ==
  [][\A value \in 0..MaxLimit :
       (value < Len(_downloadList) /\ SetMaxTo(value)) =>
         /\ thrown' = "RangeError"
         /\ emitted' = <<>>
         /\ UNCHANGED <<status, error, remove, promise, _downloadList, _waitingQueue,
                        _pausedList, _completedList, _errorList, _downloads,
                        maxConcurrentDownloads, _lock, ticks, streams>>]_vars

\* The setter has just rejected a value below the number of active records.
C10_Witness ==
  /\ thrown = "RangeError"
  /\ Len(_downloadList) = 2
  /\ maxConcurrentDownloads = 2

\* ---------------------------------------------------- whenStopped and API calls
\* Two records with their whenStopped() promises under pause, unpause and remove.
NextW ==
  \/ AddA
  \/ WhenStopped
  \/ Tick
  \/ Pause
  \/ Unpause
  \/ Remove
  \/ OnRequest
  \/ OnResponse
  \/ OnError
  \/ OnClose
  \/ OnWriteError
  \/ Vanish

SpecW == Init /\ [][NextW]_vars

\* The step changed nothing the program keeps.
NothingChanged ==
  UNCHANGED <<status, error, remove, promise, _downloadList, _waitingQueue, _pausedList,
              _completedList, _errorList, _downloads, maxConcurrentDownloads, _lock,
              ticks, streams, overwrite>>

\* C11: pause() of an ACTIVE or WAITING record leaves it PAUSED in the paused list
\* only, with no request of it left open, and a PAUSED record becomes COMPLETE or
\* ERROR in no step other than its deferred admission after unpause().
C11_PausedUntilUnpause ==
  [][\A d \in Created :
       /\ (status[d] \in {"ACTIVE", "WAITING"} /\ PauseOf(d)) =>
            /\ status'[d] = "PAUSED"
            /\ ListOf(d)' = "paused"
            /\ Memberships(d)' = 1
            /\ \A t \in BagToSet(streams') : t.d = d => ~t.isReq
       /\ (status[d] = "PAUSED" /\ Len(ticks') >= Len(ticks)) =>
            status'[d] \notin {"COMPLETE", "ERROR"}]_vars

\* C13: a pending whenStopped() promise is settled only by a step that leaves the
\* record terminal (fulfilled for COMPLETE, rejected for ERROR and REMOVED), a call
\* on a terminal record is settled at once, and the listener is never used up
\* without settling the promise.
C13_SettledWhenTerminal ==
  [][\A d \in Created :
       /\ (promise[d] = "pending" /\ promise'[d] # "pending") =>
            /\ status'[d] \in Terminal
            /\ promise'[d] = IF status'[d] = "COMPLETE" THEN "resolved" ELSE "rejected"
       /\ (promise[d] = "none" /\ promise'[d] # "none") =>
            promise'[d] = CASE status[d] = "COMPLETE" -> "resolved"
                            [] status[d] \in {"ERROR", "REMOVED"} -> "rejected"
                            [] OTHER -> "pending"
       /\ promise[d] \in {"resolved", "rejected"} => promise'[d] = promise[d]]_vars

\* C14: pause() of a PAUSED record and remove() of a REMOVED record emit no event
\* and change no status, list or index.
C14_Idempotence ==
  [][\A d \in Created :
       /\ (status[d] = "PAUSED" /\ PauseOf(d)) => (emitted' = <<>> /\ NothingChanged)
       /\ (status[d] = "REMOVED" /\ (RemoveOf(d, TRUE) \/ RemoveOf(d, FALSE))) =>
            (emitted' = <<>> /\ NothingChanged)]_vars

\* C15: a call with an identifier that is not in the index, and unpause() of a
\* record that is not PAUSED, throw and change nothing and emit nothing.
C15_UsageErrorsChangeNothing ==
  [][/\ \A gid \in 1..NumDownloads :
          UnknownGid(gid) => (thrown' = "Error" /\ emitted' = <<>> /\ NothingChanged)
     /\ \A d \in Created :
          (status[d] # "PAUSED" /\ UnpauseOf(d)) =>
            (thrown' = "Error" /\ emitted' = <<>> /\ NothingChanged)]_vars

\* A call has just thrown while one record is active and another one waits.
C15_Witness ==
  /\ thrown = "Error"
  /\ Len(_downloadList) = 1
  /\ _waitingQueue # <<>>

\* C16: pauseAll() activates no record, and when it returns every record that was
\* ACTIVE or WAITING is PAUSED in the paused list and the active list and the
\* waiting queue are empty.
C16_PauseAll ==
  [][PauseAll =>
       /\ ActivatedIn(emitted') = <<>>
       /\ \A d \in Range(_downloadList) \cup Range(_waitingQueue) :
            status'[d] = "PAUSED" /\ d \in Range(_pausedList')
       /\ _downloadList' = <<>>
       /\ _waitingQueue' = <<>>]_vars

\* pauseAll() has just paused a waiting record and an active record whose request
\* was open.
C16_Witness ==
  \E a, w \in Created :
    /\ a # w
    /\ emitted = <<<<w, "pause">>, <<a, "fail">>, <<a, "done">>, <<a, "pause">>>>
    /\ _pausedList = <<w, a>>
    /\ _downloadList = <<>>
    /\ _waitingQueue = <<>>

\* C17: remove() of a tracked record leaves it REMOVED with an error of code 31, in
\* no list and out of the index, and deletes files of that record only, and only
\* with removeFile. (Every remove() emits 'remove': the first conjunct of the
\* premise follows from the second and spares its evaluation in the other steps.)
C17_Remove ==
  [][\A d \in Range(_downloads) : \A removeFile \in BOOLEAN :
       (Emitted(emitted', d, "remove") /\ RemoveOf(d, removeFile)) =>
         /\ status'[d] = "REMOVED"
         /\ error'[d] # "null"
         /\ CodeOf(error'[d]) = 31
         /\ ListOf(d)' = "none"
         /\ d \notin Range(_downloads')
         /\ unlinked' \subseteq {<<d, f>> : f \in FileKinds}
         /\ unlinked' # {} => removeFile]_vars

\* remove(gid, true) has just removed an active record and deleted its partial file.
C17_Witness ==
  \E d \in Created :
    /\ status[d] = "REMOVED"
    /\ Emitted(emitted, d, "fail")
    /\ unlinked = {<<d, "tmp">>}
    /\ d \notin Range(_downloads)
    /\ _downloads # <<>>

\* C18: when removeAll() returns, the index and the five lists are empty, every
\* tracked record is REMOVED and no record was activated; and no REMOVED record is
\* activated in a later step.
C18_RemoveAll ==
  [][/\ RemoveAll =>
          /\ _downloads' = <<>>
          /\ _downloadList' = <<>> /\ _waitingQueue' = <<>> /\ _pausedList' = <<>>
          /\ _completedList' = <<>> /\ _errorList' = <<>>
          /\ \A d \in Range(_downloads) : status'[d] = "REMOVED"
          /\ ActivatedIn(emitted') = <<>>
     /\ \A d \in Created :
          (status[d] = "REMOVED" /\ d \notin Range(_downloads)) =>
            ~Emitted(emitted', d, "activate")]_vars

\* ------------------------------------------------------------- the policy NO
\* The default orchestrator: activations may find their path on the disk.
NextE ==
  \/ Add
  \/ Tick
  \/ SetMaxConcurrentDownloads
  \/ OnRequest
  \/ OnResponse
  \/ OnError
  \/ OnClose
  \/ OnWriteError

SpecE == InitDefault /\ [][NextE]_vars

\* The number of d's transport operations.
StreamsOf(B, d) ==
  LET mine == {t \in BagToSet(B) : t.d = d}
      RECURSIVE Sum(_)
      Sum(S) == IF S = {} THEN 0
                ELSE LET t == CHOOSE x \in S : TRUE IN CopiesIn(t, B) + Sum(S \ {t})
  IN Sum(mine)

\* C19: a record with the policy NO that is activated while its path exists ends
\* the step in ERROR with code FILE_EXISTS (13) in the failed list, no transport
\* operation was opened for it, and it holds no slot: no record is left waiting
\* while the active list has room.
C19_FailIfExists ==
  [][\A d \in Created :
       (overwrite = "NO" /\ d \in existed') =>
         /\ Emitted(emitted', d, "activate")
         /\ status'[d] = "ERROR"
         /\ error'[d] = "FILE_EXISTS"
         /\ DownloadErrorCode[error'[d]] = 13
         /\ ListOf(d)' = "failed"
         /\ StreamsOf(streams', d) = StreamsOf(streams, d)
         /\ (_waitingQueue' = <<>> \/ Len(_downloadList') >= maxConcurrentDownloads')]_vars

\* A record has just failed with FILE_EXISTS and the next waiting record has been
\* activated in its slot and is downloading.
C19_Witness ==
  \E d, w \in Created :
    /\ d # w
    /\ overwrite = "NO"
    /\ existed = {d}
    /\ emitted = <<<<d, "activate">>, <<w, "activate">>, <<d, "fail">>, <<d, "done">>>>
    /\ error[d] = "FILE_EXISTS"
    /\ status[w] = "ACTIVE"
    /\ _downloadList = <<w>>

\* ------------------------------------------------- pause and resume of a file
\* An uncaught exception ends the process.
FileStep(f) == ~io.uncaught /\ io' = f /\ UNCHANGED orchestrator

AddF == io.status = "none" /\ FileStep([io EXCEPT !.status = "INIT", !.tick = TRUE])

\* The record is alone and the limit is 1: the deferred admission step activates it.
TickF ==
  /\ io.tick
  /\ Len(io.acts) < MaxActivations
  /\ FileStep(FileDownload([io EXCEPT !.tick = FALSE]))

PauseF ==
  /\ io.status \in {"INIT", "ACTIVE", "PAUSED"}
  /\ FileStep(FilePause(io))

UnpauseF ==
  /\ io.status = "PAUSED"
  /\ ~io.tick
  /\ FileStep(FileUnpause(io))

OnRequestF ==
  \E k \in DOMAIN io.acts :
    /\ io.acts[k].net = "created"
    /\ FileStep(FileRequest(io, k))

OnResponseF ==
  \E k \in DOMAIN io.acts : \E declared \in BOOLEAN : \E length \in 1..MaxBytes :
    /\ io.acts[k].net = "requested"
    /\ declared \/ length = 1
    /\ FileStep(FileResponse(io, k, declared, length))

OnDataF ==
  \E k \in DOMAIN io.acts :
    /\ io.acts[k].net = "responded"
    /\ io.acts[k].ws = "open"
    /\ io.tmp # NoFile
    /\ io.acts[k].written < MaxBytes
    /\ io.acts[k].declared => io.acts[k].written < io.acts[k].contentLength
    /\ FileStep(FileData(io, k))

OnEndF ==
  \E k \in DOMAIN io.acts :
    /\ io.acts[k].net = "responded"
    /\ io.acts[k].ws = "open"
    /\ FileStep(FileEnd(io, k))

OnErrorF ==
  \E k \in DOMAIN io.acts :
    /\ io.acts[k].net \in {"created", "requested", "responded"}
    /\ FileStep(FileError(io, k))

OnWriteErrorF ==
  \E k \in DOMAIN io.acts :
    /\ io.acts[k].ws = "open"
    /\ FileStep(FileWriteError(io, k))

CloseF(k, renamed) ==
  /\ io.acts[k].ws = "closing"
  /\ FileStep(FileClose(io, k, renamed))

OnCloseF == \E k \in DOMAIN io.acts : \E renamed \in BOOLEAN : CloseF(k, renamed)

RemoveF(removeFile) ==
  /\ io.status \in {"INIT", "ACTIVE", "PAUSED", "ERROR", "COMPLETE"}
  /\ FileStep(FileRemove(io, removeFile))

RemoveFile == \E removeFile \in BOOLEAN : RemoveF(removeFile)

NextF ==
  \/ AddF
  \/ TickF
  \/ PauseF
  \/ UnpauseF
  \/ OnRequestF
  \/ OnResponseF
  \/ OnDataF
  \/ OnEndF
  \/ OnErrorF
  \/ OnWriteErrorF
  \/ OnCloseF
  \/ RemoveFile

SpecF == Init /\ [][NextF]_vars

\* C12: from the pause of an ACTIVE record in mid-transfer until its unpause the
\* partial file is neither deleted nor renamed; an activation that finds N > 0
\* bytes in the partial file asks for Range: bytes=N-, its response sets
\* totalLength to N plus the declared content length, and the final file it
\* completes holds the N bytes plus the bytes it transferred.
C12_ResumeKeepsPartial ==
  [][/\ ((io.midTransfer \/ io'.midTransfer) /\ io'.status # "REMOVED") =>
          (io'.tmp # NoFile /\ io'.tmp >= io.tmp /\ io'.final = io.final)
     /\ (Len(io'.acts) = Len(io.acts) + 1 /\ io.tmp > 0) =>
          (io'.Range = io.tmp /\ io'.acts[Len(io'.acts)].fileLength = io.tmp)
     /\ \A k \in DOMAIN io.acts :
          /\ (io.acts[k].net = "requested" /\ io'.acts[k].net = "responded"
                /\ io.acts[k].fileLength > 0) =>
               io'.totalLength = io.acts[k].fileLength + io'.acts[k].contentLength
          /\ (io.acts[k].ws = "closing" /\ io'.acts[k].ws = "closed"
                /\ io'.final # io.final /\ io.acts[k].fileLength > 0) =>
               io'.final = io.acts[k].fileLength + io.acts[k].written]_vars

\* ------------------------------------------------------------ rename numbering
NamingStep(n) ==
  /\ naming' = n
  /\ UNCHANGED <<status, error, remove, promise, _downloadList, _waitingQueue,
                 _pausedList, _completedList, _errorList, _downloads,
                 maxConcurrentDownloads, _lock, _disposed, ticks, streams, emitted,
                 thrown, unlinked, overwrite, existed, io, calls>>

AddR(out, policy) ==
  /\ Len(naming.recs) < MaxRecords
  /\ NamingStep(NamingAdd(naming, out, policy))

AddN == \E out \in Outs : \E policy \in {"RENAME", "NO"} : AddR(out, policy)

\* An activation of a record, the first one or one after pause and unpause.
ActivateR(d) ==
  /\ naming.recs[d].renameCount <= MaxRename
  /\ NamingStep(NamingDownload(naming, d))

ActivateN == \E d \in DOMAIN naming.recs : ActivateR(d)

\* renameSync(p + '.tmp', p) of a transfer, or any other program, creates a file.
CreateN ==
  \E p \in {"a.txt", Renamed("a.txt", 1), Renamed("a.txt", 2)} \ naming.disk :
    NamingStep([naming EXCEPT !.disk = @ \cup {p}])

\* remove takes the record out of the index.
RemoveN ==
  \E d \in DOMAIN naming.recs :
    /\ naming.recs[d].tracked
    /\ NamingStep([naming EXCEPT !.recs[d].tracked = FALSE])

NextN ==
  \/ AddN
  \/ ActivateN
  \/ CreateN
  \/ RemoveN

SpecN == Init /\ [][NextN]_vars

\* The path a record has with the rename count k.
PathAt(originPath, k) == IF k = 0 THEN originPath ELSE Renamed(originPath, k)

\* k is the first count from the count from on whose path is not in taken.
FirstFree(originPath, from, k, taken) ==
  /\ k >= from
  /\ PathAt(originPath, k) \notin taken
  /\ \A m \in from..(k - 1) : PathAt(originPath, m) \in taken

\* C20: the path of every record is its original name with " (renameCount)" before
\* the extension, and the original path when renameCount is 0; add with the policy
\* RENAME leaves the first count from 0 on whose path no tracked record has, an
\* activation with the policy RENAME leaves the first count from the current one on
\* whose path is not on the disk; a second add of the same out gets " (1)" and 1.
C20_RenameNumbering ==
  [][/\ \A d \in DOMAIN naming'.recs :
          naming'.recs[d].path =
            PathAt(naming'.recs[d].originPath, naming'.recs[d].renameCount)
     /\ \A out \in Outs :
          AddR(out, "RENAME") =>
            LET new == naming'.recs[Len(naming'.recs)]
            IN /\ FirstFree(out, 0, new.renameCount, TrackedPaths(naming))
               /\ (TrackedPaths(naming) = {out}) =>
                    (new.renameCount = 1 /\ new.path = Parse(out).name \o " (1)" \o Parse(out).ext)
     /\ \A d \in DOMAIN naming.recs :
          (naming.recs[d].overwrite = "RENAME" /\ ActivateR(d)) =>
            FirstFree(naming.recs[d].originPath, naming.recs[d].renameCount,
                      naming'.recs[d].renameCount, naming.disk)]_vars

\* The third record added as a.txt has been renamed twice at add and once more at
\* its activation, and the second one is a (1).txt.
C20_Witness ==
  /\ Len(naming.recs) = 3
  /\ naming.recs[2].path = "a (1).txt"
  /\ naming.recs[2].renameCount = 1
  /\ naming.recs[2].originPath = "a.txt"
  /\ naming.recs[3].originPath = "a.txt"
  /\ naming.recs[3].path = "a (3).txt"
  /\ naming.recs[3].renameCount = 3

\* C21: two records in the index that both have the policy RENAME never have the
\* same path, after an add and after the comparison with the disk at an activation.
C21_UniquePaths ==
  \A d, e \in DOMAIN naming.recs :
    (/\ d # e
     /\ naming.recs[d].tracked /\ naming.recs[e].tracked
     /\ naming.recs[d].overwrite = "RENAME" /\ naming.recs[e].overwrite = "RENAME") =>
      naming.recs[d].path # naming.recs[e].path

\* ------------------------------------------------------------ the policy YES
SpecO == InitOverwrite /\ [][NextE]_vars

\* C22: a record with the policy YES that is activated while its path exists either
\* has the file deleted and its transport opened, or, when the deletion fails, ends
\* the step in ERROR with code FILE_IO (17) in the failed list with no transport
\* opened and nothing deleted.
C22_Overwrite ==
  [][\A d \in Created :
       (overwrite = "YES" /\ d \in existed') =>
         \/ /\ <<d, "final">> \in unlinked'
            /\ StreamsOf(streams', d) = StreamsOf(streams, d) + 1
            /\ status'[d] = "ACTIVE"
         \/ /\ <<d, "final">> \notin unlinked'
            /\ StreamsOf(streams', d) = StreamsOf(streams, d)
            /\ status'[d] = "ERROR"
            /\ error'[d] = "FILE_IO"
            /\ DownloadErrorCode[error'[d]] = 17
            /\ ListOf(d)' = "failed"]_vars

\* The deletion of one record's file has just failed, and the next waiting record
\* had its file deleted and is downloading.
C22_Witness ==
  \E d, w \in Created :
    /\ d # w
    /\ overwrite = "YES"
    /\ existed = {d, w}
    /\ unlinked = {<<w, "final">>}
    /\ emitted = <<<<d, "activate">>, <<w, "activate">>, <<d, "fail">>, <<d, "done">>>>
    /\ error[d] = "FILE_IO"
    /\ _downloadList = <<w>>

\* How often the event ev of the record d is in the log.
CountOf(log, d, ev) == Cardinality({i \in 1..Len(log) : log[i] = <<d, ev>>})

\* C29: a step emits 'done' for a record only when it leaves the record terminal;
\* remove() of an ACTIVE record emits a single 'done', and pause() emits neither
\* 'fail' nor 'done' for the record.
C29_DoneOncePerOutcome ==
  [][\A d \in Created :
       /\ Emitted(emitted', d, "done") => status'[d] \in Terminal
       /\ (status[d] = "ACTIVE" /\ Emitted(emitted', d, "remove")
             /\ (RemoveOf(d, TRUE) \/ RemoveOf(d, FALSE))) =>
            CountOf(emitted', d, "done") = 1
       /\ (Emitted(emitted', d, "pause") /\ PauseOf(d)) =>
            (~Emitted(emitted', d, "fail") /\ ~Emitted(emitted', d, "done"))]_vars

\* C30: no step activates a REMOVED record or opens a transport for it, and no step
\* makes a PAUSED or REMOVED record COMPLETE.
C30_RemovedNeverActivated ==
  [][\A d \in Created :
       /\ status[d] = "REMOVED" =>
            (~Emitted(emitted', d, "activate")
               /\ StreamsOf(streams', d) <= StreamsOf(streams, d))
       /\ status[d] \in {"PAUSED", "REMOVED"} => status'[d] # "COMPLETE"]_vars

\* C23: the record becomes COMPLETE only in a 'close' step that renamed the
\* non-empty partial file to the final path; renameSync is attempted only by an
\* activation that was neither cancelled nor errored, on a non-empty partial
\* file whose size, when a content length was declared, is the prior length
\* plus the content length; a failed rename leaves the record ERROR with
\* RENAME_FAILED.
C23_CompleteOnlyAfterRename ==
  [][/\ (io'.status = "COMPLETE" /\ io.status # "COMPLETE") =>
          \E k \in DOMAIN io.acts :
            /\ io.acts[k].ws = "closing" /\ io'.acts[k].ws = "closed"
            /\ io'.acts[k].tried = "ok"
            /\ io.tmp > 0 /\ io'.final = io.tmp /\ io'.tmp = NoFile
     /\ \A k \in DOMAIN io.acts :
          /\ (io.acts[k].tried = "no" /\ io'.acts[k].tried # "no") =>
               /\ ~io.acts[k].cancelled
               /\ ~io.acts[k].errored
               /\ io.tmp > 0
               /\ io.acts[k].declared =>
                    io.tmp = io.acts[k].fileLength + io.acts[k].contentLength
          /\ (io.acts[k].tried = "no" /\ io'.acts[k].tried = "failed") =>
               (io'.status = "ERROR" /\ io'.error = "RENAME_FAILED")]_vars

\* C24: a 'close' step that finds a non-empty partial file whose size is not the
\* prior length plus the declared content length neither renames nor deletes
\* the partial file and changes neither the status nor the error of the
\* record: the step does not complete it, and an ACTIVE record stays ACTIVE.
C24_TruncatedNotCompleted ==
  [][\A k \in DOMAIN io.acts :
       (/\ io.acts[k].ws = "closing" /\ io'.acts[k].ws = "closed"
        /\ io.acts[k].declared
        /\ io.tmp > 0
        /\ io.tmp # io.acts[k].fileLength + io.acts[k].contentLength) =>
         /\ io'.tmp = io.tmp
         /\ io'.final = io.final
         /\ io'.acts[k].tried = "no"
         /\ io'.status = io.status
         /\ io'.error = io.error]_vars

C24_Witness ==
  /\ io.status = "ACTIVE"
  /\ io.final = NoFile
  /\ Len(io.acts) = 1
  /\ io.acts[1].ws = "closed" /\ io.acts[1].net = "ended"
  /\ io.acts[1].declared /\ io.acts[1].rename
  /\ ~io.acts[1].errored /\ ~io.acts[1].cancelled
  /\ io.tmp > 0
  /\ io.tmp < io.acts[1].fileLength + io.acts[1].contentLength

\* C25: a transport error, a write error, a pause or a remove without
\* deleteFiles of an ACTIVE record leaves its non-empty partial file in place
\* with the same size; a non-empty partial file never shrinks, and it
\* disappears only by remove with deleteFiles or by the rename to the final
\* path.
C25_PartialSurvives ==
  [][/\ (/\ io.status = "ACTIVE"
         /\ io.tmp > 0
         /\ (OnErrorF \/ OnWriteErrorF \/ PauseF \/ RemoveF(FALSE))) =>
          io'.tmp = io.tmp
     /\ (io.tmp > 0 /\ io'.tmp # NoFile) => io'.tmp >= io.tmp
     /\ (io.tmp > 0 /\ io'.tmp = NoFile) =>
          \/ RemoveF(TRUE)
          \/ /\ io'.final = io.tmp
             /\ \E k \in DOMAIN io.acts :
                  io.acts[k].tried = "no" /\ io'.acts[k].tried = "ok"]_vars

C25_Witness ==
  /\ io.status = "ERROR"
  /\ io.error \in {"NETWORK", "FILE_IO"}
  /\ io.tmp > 0
  /\ io.final = NoFile
  /\ Len(io.acts) = 1
  /\ io.acts[1].errored
  /\ io.acts[1].ws = "closed"

\* C26: no failure met while driving a transfer escapes as an exception.
C26_NothingThrown == ~io.uncaught

\* The errors got reports: TimeoutError, HTTPError with the status 403, 404 or
\* another one, MaxRedirectsError, and any other RequestError.
ErrorKinds == {"timeout", "http403", "http404", "httpOther", "maxRedirects", "other"}

ErrorOf(t, kind) ==
  \E fs \in Oracles(Waiting) :
    /\ t.phase \in {"created", "requested", "piping", "nofile"}
    /\ Step(ErrorHandler(Cur(fs), t, kind))

OnErrorKind == \E t \in BagToSet(streams) : \E kind \in ErrorKinds : ErrorOf(t, kind)

NextT ==
  \/ Add
  \/ Tick
  \/ SetMaxConcurrentDownloads
  \/ OnRequest
  \/ OnResponse
  \/ OnErrorKind
  \/ OnClose
  \/ OnWriteError

SpecT == Init /\ [][NextT]_vars

\* C27: the 'error' event of the transport of an ACTIVE record leaves the record
\* ERROR, in the failed list and in no other list, with exactly one code:
\* TIMEOUT (2) for a timeout, AUTH_FAILED (24) for HTTP 403, RES_NOT_FOUND (3)
\* for HTTP 404, MAX_REDIRECTS (23) for too many redirects and NETWORK (6) for
\* every other HTTP or network error; 'fail' and 'done' report it.
C27_TransportErrorCodes ==
  [][\A t \in BagToSet(streams) : \A kind \in ErrorKinds :
       (/\ status[t.d] = "ACTIVE"
        /\ Emitted(emitted', t.d, "fail")
        /\ ErrorOf(t, kind)) =>
         /\ status'[t.d] = "ERROR"
         /\ DownloadErrorCode[error'[t.d]] =
              (CASE kind = "timeout" -> 2
                 [] kind = "http403" -> 24
                 [] kind = "http404" -> 3
                 [] kind = "maxRedirects" -> 23
                 [] OTHER -> 6)
         /\ t.d \in Range(_errorList')
         /\ t.d \notin Range(_downloadList') \cup Range(_waitingQueue')
                      \cup Range(_pausedList') \cup Range(_completedList')
         /\ CountOf(emitted', t.d, "fail") = 1
         /\ \E i \in 1..(Len(emitted') - 1) :
              emitted'[i] = <<t.d, "fail">> /\ emitted'[i + 1] = <<t.d, "done">>]_vars

\* Three records have failed, each with another code.
C27_Witness ==
  /\ \E d \in Created : status[d] = "ERROR" /\ error[d] = "TIMEOUT"
  /\ \E d \in Created : status[d] = "ERROR" /\ error[d] = "AUTH_FAILED"
  /\ \E d \in Created : status[d] = "ERROR" /\ error[d] = "MAX_REDIRECTS"
  /\ Len(_errorList) = 3

\* The places of the event ev of the record d in the log.
PlacesOf(log, d, ev) == {i \in 1..Len(log) : log[i] = <<d, ev>>}

\* C28: in the events a step emits for one record, every 'complete' and every
\* 'fail' is followed at once by the record's 'done' and comes after the
\* 'activate' of its activation, which this step or the step that opened the
\* transport emitted; a record that starts to wait has its 'queue' emitted, and
\* before the 'activate' that ends the wait; 'complete' never comes from an
\* activation that emitted 'fail', nor twice or together with 'fail' without an
\* 'activate' in between.
C28_CausalOrder ==
  [][\A d \in Created' :
       LET ends == PlacesOf(emitted', d, "complete") \cup PlacesOf(emitted', d, "fail")
           acts == PlacesOf(emitted', d, "activate")
           queues == PlacesOf(emitted', d, "queue")
           before == IF d \in Created THEN StreamsOf(streams, d) ELSE 0
       IN /\ \A i \in ends : i < Len(emitted') /\ emitted'[i + 1] = <<d, "done">>
          /\ \A i \in ends : (\E j \in acts : j < i) \/ before > 0
          /\ StreamsOf(streams', d) > before => acts # {}
          /\ (status'[d] = "WAITING" /\ (d \in Created => status[d] # "WAITING")) =>
               (queues # {} /\ \A j \in acts : \E i \in queues : j < i)
          /\ (status'[d] = "ACTIVE" /\ queues # {}) =>
               \E j \in acts : \A i \in queues : i < j
          /\ \A i \in PlacesOf(emitted', d, "complete") :
               /\ \A k \in ends : k < i => \E j \in acts : k < j /\ j < i
               /\ (\A j \in acts : i < j) =>
                    \E t \in BagToSet(streams) :
                      /\ t.d = d /\ ~t.failed /\ t.rename
                      /\ CopiesIn(t, streams') < CopiesIn(t, streams)]_vars

\* A transfer completes and the record that waited behind it is activated.
C28_Witness ==
  \E d, w \in Created :
    /\ d # w
    /\ emitted = <<<<w, "activate">>, <<d, "complete">>, <<d, "done">>>>
    /\ status[d] = "COMPLETE"
    /\ status[w] = "ACTIVE"
    /\ StreamsOf(streams, w) = 1

\* A call of the record's public abort().
AbortOf(d) == \E fs \in Oracles(Waiting) : Call(Abort(Cur(fs), d))

AbortCall == \E d \in Created : AbortOf(d)

NextB ==
  \/ Add
  \/ Tick
  \/ SetMaxConcurrentDownloads
  \/ AbortCall
  \/ OnRequest
  \/ OnResponse
  \/ OnError
  \/ OnClose
  \/ OnWriteError

SpecB == Init /\ [][NextB]_vars

\* C31: abort() on an ACTIVE record changes neither the status of the record nor
\* the list it is in, and emits no event for it; the record becomes terminal only
\* in a later step of its transport.
C31_AbortIsCooperative ==
  [][\A d \in Created :
       (status[d] = "ACTIVE" /\ calls' = calls + 1 /\ AbortOf(d)) =>
         /\ status'[d] = "ACTIVE"
         /\ ListOf(d)' = "active"
         /\ ~Emitted(emitted', d, "fail")
         /\ ~Emitted(emitted', d, "done")]_vars

\* Someone outside the program deletes the partial file of a paused record.
TmpDeleted ==
  /\ io.status = "PAUSED"
  /\ io.tmp # NoFile
  /\ FileStep([io EXCEPT !.tmp = NoFile])

NextR ==
  \/ AddF
  \/ TickF
  \/ PauseF
  \/ UnpauseF
  \/ OnRequestF
  \/ OnResponseF
  \/ OnDataF
  \/ OnEndF
  \/ OnErrorF
  \/ OnWriteErrorF
  \/ OnCloseF
  \/ TmpDeleted

\* A new orchestrator; an earlier run may have left a partial file of one chunk.
InitPartial ==
  /\ status = <<>>
  /\ error = <<>>
  /\ remove = <<>>
  /\ promise = <<>>
  /\ _downloadList = <<>>
  /\ _waitingQueue = <<>>
  /\ _pausedList = <<>>
  /\ _completedList = <<>>
  /\ _errorList = <<>>
  /\ _downloads = <<>>
  /\ maxConcurrentDownloads = 1
  /\ _lock = FALSE
  /\ _disposed = FALSE
  /\ ticks = <<>>
  /\ streams = EmptyBag
  /\ emitted = <<>>
  /\ thrown = "none"
  /\ unlinked = {}
  /\ overwrite = "RENAME"
  /\ existed = {}
  /\ io \in {IoInit, [IoInit EXCEPT !.tmp = 1]}
  /\ naming = NamingInit
  /\ calls = 0

SpecR == InitPartial /\ [][NextR]_vars

\* C32: every activation sends the header Range: bytes=N- when the partial file
\* exists with the size N > 0 at that moment, and no Range header otherwise.
C32_RangeIffPartial ==
  [][Len(io'.acts) = Len(io.acts) + 1 =>
       io'.Range = (IF io.tmp > 0 THEN io.tmp ELSE NoFile)]_vars

\* C33: between steps record.remove is set exactly for the records that sit in a
\* list, it belongs to the list the record sits in, and the record sits there
\* once.
C33_RemoveIffMember ==
  \A d \in Created :
    /\ remove[d] = "null" <=> ListOf(d) = "none"
    /\ remove[d] # "null" => (remove[d] = ListOf(d) /\ Memberships(d) = 1)

\* One record was shifted out of the waiting queue into the active list, one was
\* pushed from the active list into the paused list, and one used its closure
\* in remove().
C33_Witness ==
  \E d, w, r \in Created :
    /\ remove[d] = "paused" /\ d \in Range(_pausedList)
    /\ remove[w] = "active" /\ w \in Range(_downloadList)
    /\ remove[r] = "null" /\ status[r] = "REMOVED"

\* Four records, so that one of the three that wait behind the active one is
\* inside the queue.
MaxQueued == 4

AddQ ==
  /\ Len(status) < MaxQueued
  /\ Step(add(Cur(NoFs)))

NextQ ==
  \/ AddQ
  \/ Tick
  \/ Pause
  \/ Remove

SpecQ == Init /\ [][NextQ]_vars

\* C34: pause() or remove() of a WAITING record takes the record out of the
\* waiting queue and leaves the other waiting records in it, once each and in
\* the order they had.
C34_WaitingOrderKept ==
  [][\A d \in Created :
       (/\ status[d] = "WAITING"
        /\ (Emitted(emitted', d, "pause") \/ Emitted(emitted', d, "remove"))
        /\ (PauseOf(d) \/ RemoveOf(d, TRUE) \/ RemoveOf(d, FALSE))) =>
         /\ Range(_waitingQueue') = Range(_waitingQueue) \ {d}
         /\ Len(_waitingQueue') = Len(_waitingQueue) - 1
         /\ \A a, b \in Range(_waitingQueue') :
              Before(_waitingQueue', a, b) <=> Before(_waitingQueue, a, b)]_vars

\* The record in the middle of three waiting records was paused or removed.
C34_Witness ==
  /\ _downloadList = <<1>>
  /\ _waitingQueue = <<2, 4>>
  /\ status[3] \in {"PAUSED", "REMOVED"}

\* C35: between steps, when the waiting queue is not empty the active list holds
\* settings.maxConcurrentDownloads records.
C35_NoIdleSlot == _waitingQueue # <<>> => Len(_downloadList) = maxConcurrentDownloads

\* Records are added and nothing else is called: the deferred admission steps and
\* the callbacks of the transports run, each of them eventually.
MaxWaiters == 2     \* records that add() creates in a behaviour of SpecL

AddL == Len(status) < MaxWaiters /\ Step(add(Cur(NoFs)))

NextL ==
  \/ AddL
  \/ Tick
  \/ OnRequest
  \/ OnResponse
  \/ OnError
  \/ OnClose
  \/ OnWriteError

SpecL ==
  /\ Init
  /\ [][NextL]_vars
  /\ WF_vars(Tick)
  /\ WF_vars(OnRequest \/ OnResponse \/ OnError \/ OnClose \/ OnWriteError)

\* The status of the d-th record, "none" before add() has created it.
StatusOf(d) == IF d \in Created THEN status[d] ELSE "none"

\* C36: when every transport ends and nothing but add() is called, every WAITING
\* record eventually leaves the waiting queue and every ACTIVE record eventually
\* becomes COMPLETE or ERROR.
C36_NoStarvation ==
  \A d \in 1..MaxWaiters :
    /\ (StatusOf(d) = "WAITING") ~> (StatusOf(d) # "WAITING")
    /\ (StatusOf(d) = "ACTIVE") ~> (StatusOf(d) \in {"COMPLETE", "ERROR"})

\* The transports of d whose request was not destroyed and that have not yet
\* reported an error or the end of their write stream.
RunningOf(B, d) ==
  LET mine == {t \in BagToSet(B) :
                 t.d = d /\ ~t.dead /\ t.phase \in {"created", "requested", "piping"}}
      RECURSIVE Sum(_)
      Sum(S) == IF S = {} THEN 0
                ELSE LET t == CHOOSE x \in S : TRUE IN CopiesIn(t, B) + Sum(S \ {t})
  IN Sum(mine)

\* C37: a record never has more than one running transport.
C37_OneTransport == \A d \in Created : RunningOf(streams, d) <= 1

\* add with any of the three policies.
AddP == \E out \in Outs : \E policy \in {"RENAME", "NO", "YES"} : AddR(out, policy)

\* A deferred admission step that finds a place in the active list, the limit
\* being MaxLimit.
ActivateP ==
  \E d \in DOMAIN naming.recs \ naming.active :
    /\ naming.recs[d].tracked
    /\ naming.recs[d].renameCount <= MaxRename
    /\ Cardinality(naming.active) < MaxLimit
    /\ NamingStep(NamingActivate(naming, d))

FinishP ==
  \E d \in naming.active : \E renamed \in BOOLEAN :
    NamingStep(NamingFinish(naming, d, renamed))

NextP ==
  \/ AddP
  \/ ActivateP
  \/ FinishP
  \/ CreateN

SpecP == Init /\ [][NextP]_vars

\* C38: two records that are transferring at the same time have different paths.
C38_ActivePathsDiffer ==
  \A d, e \in naming.active : d # e => naming.recs[d].path # naming.recs[e].path

\* ------------------------------------------------------------------ dispose
\* Download.dispose: the record's listeners go (a promise of whenStopped that is
\* still pending is never settled), then this.remove?.(), this.abort() and
\* req = null.
DownloadDispose(s, d) ==
  LET s1 == [s EXCEPT !.promise[d] = IF @ = "pending" THEN "detached" ELSE @]
      s2 == IF s1.remove[d] # "null" THEN ElementRemove(s1, d) ELSE s1
      s3 == [s2 EXCEPT !.remove[d] = "null"]
      s4 == Abort(s3, d)
  IN [s4 EXCEPT !.streams = ClearReq(@, d)]

RECURSIVE DisposeEach(_, _)

\* The loop of dispose over this._downloads.values().
DisposeEach(s, seq) ==
  IF seq = <<>> THEN s ELSE DisposeEach(DownloadDispose(s, Head(seq)), Tail(seq))

\* Downloader.dispose: the records first, then the five lists (their listeners go
\* and they are cleared), then the identity index.
dispose(s) ==
  IF s.disposed
    THEN s
    ELSE LET s1 == [s EXCEPT !.disposed = TRUE]
             s2 == DisposeEach(s1, s1.downloads)
         IN [s2 EXCEPT !.listening = FALSE,
                       !.list = [L \in DOMAIN s2.list |-> <<>>],
                       !.downloads = <<>>]

Dispose == \E fs \in Oracles(Waiting) : Step(dispose(Cur(fs)))

\* The API calls made before dispose().
AddD == ~_disposed /\ Add

PauseD == ~_disposed /\ Pause

\* The orchestrator with dispose(); no API call is made after it, the callbacks
\* that are pending still run.
NextD ==
  \/ AddD
  \/ PauseD
  \/ Dispose
  \/ Tick
  \/ OnRequest
  \/ OnResponse
  \/ OnError
  \/ OnClose
  \/ OnWriteError

SpecD == Init /\ [][NextD]_vars

\* C39: dispose() shuts the orchestrator down without side activity: in the step
\* of dispose and in every later step no record is activated and no transport is
\* started, once disposed no transport is in flight and the identity index and the
\* five lists are empty, and a second dispose() changes nothing.
C39_DisposeIsQuiet ==
  /\ [][_disposed' =>
          /\ \A d \in DOMAIN status' : ~Emitted(emitted', d, "activate")
          /\ \A d \in Created : RunningOf(streams', d) <= RunningOf(streams, d)]_vars
  /\ [](_disposed =>
          /\ \A d \in Created : RunningOf(streams, d) = 0
          /\ _downloads = <<>>
          /\ _downloadList = <<>> /\ _waitingQueue = <<>> /\ _pausedList = <<>>
          /\ _completedList = <<>> /\ _errorList = <<>>)
  /\ [][(_disposed /\ Dispose) => UNCHANGED <<status, error, remove, promise, _downloadList,
          _waitingQueue, _pausedList, _completedList, _errorList, _downloads,
          maxConcurrentDownloads, _lock, _disposed, ticks, streams>>]_vars

\* ------------------------------------------------------- listeners and batches
\* The listeners a caller may have put on the orchestrator before a batch call.
Listeners ==
  {NoListener} \cup {[kind |-> k, d |-> d] : k \in {"throws", "assigns"}, d \in Created}

PauseAllHeard == \E l \in Listeners : Call(pauseAll([Cur(NoFs) EXCEPT !.listener = l]))

UnpauseAllHeard == \E l \in Listeners : Call(unpauseAll([Cur(NoFs) EXCEPT !.listener = l]))

RemoveAllHeard ==
  \E l \in Listeners : \E c \in RemoveCases :
    Call(removeAll([Cur(NoFs) EXCEPT !.listener = l], c[1], c[2]))

\* The orchestrator whose batch operations run with listeners.
NextX ==
  \/ Add
  \/ Tick
  \/ PauseAllHeard
  \/ UnpauseAllHeard
  \/ RemoveAllHeard
  \/ SetMaxConcurrentDownloads
  \/ OnRequest
  \/ OnResponse
  \/ OnClose

SpecX == Init /\ [][NextX]_vars

\* C40: the batch lock is held only while a batch operation runs: when pauseAll,
\* unpauseAll or removeAll has returned or has been left by an exception, and so
\* in every state between two steps, _lock is false.
C40_LockReleased == ~_lock

====
